---- MODULE Spec2Model ----
(***************************************************************************)
(* Model of notebooks/rosters.ipynb: build_roster, get_year_month and      *)
(* to_markdown.  Strings are sequences of one-character strings, so that   *)
(* formatting, joining, quoting and parsing are computed and not assumed.  *)
(***************************************************************************)
EXTENDS Integers, Sequences, FiniteSets, TLC

VARIABLES
    pc,                     \* position of the notebook run
    year, month,            \* arguments of build_roster
    volunteers_by_weekday,  \* argument of build_roster: weekday name -> list of names
    meeting_time,           \* argument of build_roster: <<>> (None) or <<weekday, n, start, end>>
    roster,                 \* the DataFrame build_roster returned (sequence of rows)
    error,                  \* the exception that ended the last call, "" when none
    format,                 \* argument of get_year_month, <<>> before the call
    label,                  \* <<s>> when get_year_month returned s, <<>> otherwise
    markdown,               \* <<s>> when to_markdown returned the string s, <<>> otherwise
    path,                   \* to_markdown's path: number of components of path.parent
                            \* (0: the parent is '.', -1: path is None)
    dirs,                   \* file system: number of leading components of path.parent that exist
    level,                  \* the component of path.parent that Path.mkdir is making
    written                 \* <<s>> when the file at path holds s, <<>> when there is no file

vars == <<pc, year, month, volunteers_by_weekday, meeting_time, roster, error,
          format, label, markdown, path, dirs, level, written>>

-----------------------------------------------------------------------------
(* Bounds of the model *)

MaxKeys == 2          \* largest number of keys of volunteers_by_weekday
MaxVolunteers == 2    \* longest list of volunteers of one weekday
MaxOrdinal == 5       \* largest week ordinal of a meeting
MaxDepth == 3         \* deepest parent directory of an output path

-----------------------------------------------------------------------------
(* Strings *)

RECURSIVE Concat(_)
Concat(ss) == IF ss = <<>> THEN <<>> ELSE Head(ss) \o Concat(Tail(ss))

\* (mutant of Join: the separator is left out)
RECURSIVE JoinSkip(_, _)
JoinSkip(sep, ss) ==
    IF ss = <<>> THEN <<>>
    ELSE IF Len(ss) = 1 THEN Head(ss)
    ELSE Head(ss) \o JoinSkip(sep, Tail(ss))

\* str.join
RECURSIVE Join(_, _)
Join(sep, ss) ==
    IF ss = <<>> THEN <<>>
    ELSE IF Len(ss) = 1 THEN Head(ss)
    ELSE Head(ss) \o sep \o Join(sep, Tail(ss))

\* str.split(c)
RECURSIVE Split(_, _)
Split(s, c) ==
    IF \A i \in 1..Len(s) : s[i] # c THEN <<s>>
    ELSE LET i == CHOOSE k \in 1..Len(s) : s[k] = c /\ \A j \in 1..(k - 1) : s[j] # c
         IN  <<SubSeq(s, 1, i - 1)>> \o Split(SubSeq(s, i + 1, Len(s)), c)

Digits == <<"0", "1", "2", "3", "4", "5", "6", "7", "8", "9">>

DigitChar(n) == Digits[n + 1]

DigitVal(c) == CHOOSE n \in 0..9 : Digits[n + 1] = c

\* '%0<w>d' of n >= 0
RECURSIVE ZeroPad(_, _)
ZeroPad(n, w) ==
    IF w = 0 /\ n = 0 THEN <<>>
    ELSE ZeroPad(n \div 10, IF w = 0 THEN 0 ELSE w - 1) \o <<DigitChar(n % 10)>>

\* int() of a string of digits
RECURSIVE ParseInt(_)
ParseInt(s) ==
    IF s = <<>> THEN 0 ELSE 10 * ParseInt(SubSeq(s, 1, Len(s) - 1)) + DigitVal(s[Len(s)])

-----------------------------------------------------------------------------
(* datetime.date, dateutil.relativedelta, pandas.date_range *)

MINYEAR == 1
MAXYEAR == 9999

DAYS_IN_MONTH == <<31, 28, 31, 30, 31, 30, 31, 31, 30, 31, 30, 31>>
DAYS_BEFORE_MONTH == <<0, 31, 59, 90, 120, 151, 181, 212, 243, 273, 304, 334>>

is_leap(y) == y % 4 = 0 /\ (y % 100 # 0 \/ y % 400 = 0)

\* dt.date(y, m, d) is a date: otherwise the constructor raises ValueError
ValidDate(y, m, d) ==
    /\ MINYEAR <= y /\ y <= MAXYEAR
    /\ 1 <= m /\ m <= 12
    /\ 1 <= d /\ d <= DAYS_IN_MONTH[m] + (IF m = 2 /\ is_leap(y) THEN 1 ELSE 0)

\* date.toordinal(): 0001-01-01 is day 1
toordinal(y, m, d) ==
    LET p == y - 1
    IN  p * 365 + p \div 4 - p \div 100 + p \div 400
        + DAYS_BEFORE_MONTH[m] + (IF m > 2 /\ is_leap(y) THEN 1 ELSE 0) + d

\* date.fromordinal(n), as <<year, month, day>>
fromordinal(ord) ==
    LET n0   == ord - 1
        n400 == n0 \div 146097
        r400 == n0 % 146097
        n100 == r400 \div 36524
        r100 == r400 % 36524
        n4   == r100 \div 1461
        r4   == r100 % 1461
        n1   == r4 \div 365
        n    == r4 % 365
        y    == n400 * 400 + n100 * 100 + n4 * 4 + n1 + 1
        leap == n1 = 3 /\ (n4 # 24 \/ n100 = 3)
        m0   == (n + 50) \div 32
        pre0 == DAYS_BEFORE_MONTH[m0] + (IF m0 > 2 /\ leap THEN 1 ELSE 0)
        m    == IF pre0 > n THEN m0 - 1 ELSE m0
        pre  == IF pre0 > n
                THEN pre0 - (DAYS_IN_MONTH[m] + (IF m = 2 /\ leap THEN 1 ELSE 0))
                ELSE pre0
    IN  IF n1 = 4 \/ n100 = 4 THEN <<y - 1, 12, 31>> ELSE <<y, m, n - pre + 1>>

\* d1 + relativedelta(months=1) for the first day of a month, before the
\* result is made a date (year 10000 is no date)
AddMonth(y, m) == IF m + 1 > 12 THEN <<y + 1, m + 1 - 12, 1>> ELSE <<y, m + 1, 1>>

\* pd.Timestamp holds int64 nanoseconds since 1970: the first and the last
\* midnight it can hold
TimestampMin == <<1677, 9, 22>>
TimestampMax == <<2262, 4, 11>>

InTimestampRange(d) ==
    /\ toordinal(TimestampMin[1], TimestampMin[2], TimestampMin[3]) <= toordinal(d[1], d[2], d[3])
    /\ toordinal(d[1], d[2], d[3]) <= toordinal(TimestampMax[1], TimestampMax[2], TimestampMax[3])

\* the days start, start + 1, ..., end as ordinals
RECURSIVE DayRange(_, _)
DayRange(a, b) == IF a > b THEN <<>> ELSE <<a>> \o DayRange(a + 1, b)

\* (mutant of date_range: closed on both sides)
date_range_closed(d1, d2) ==
    DayRange(toordinal(d1[1], d1[2], d1[3]), toordinal(d2[1], d2[2], d2[3]))

\* pd.date_range(d1, d2, closed='left'): daily, the right end point dropped
date_range(d1, d2) ==
    LET a  == toordinal(d1[1], d1[2], d1[3])
        b  == toordinal(d2[1], d2[2], d2[3])
        ix == DayRange(a, b)
    IN  IF ix # <<>> /\ ix[Len(ix)] = b THEN SubSeq(ix, 1, Len(ix) - 1) ELSE ix

\* (mutant of strftime_date: the day is not padded)
strftime_date_nopad(ord) ==
    LET d == fromordinal(ord)
    IN  ZeroPad(d[1], 4) \o <<"-">> \o ZeroPad(d[2], 2) \o <<"-">> \o ZeroPad(d[3], 1)

\* DatetimeIndex.strftime('%Y-%m-%d') of one day
strftime_date(ord) ==
    LET d == fromordinal(ord)
    IN  ZeroPad(d[1], 4) \o <<"-">> \o ZeroPad(d[2], 2) \o <<"-">> \o ZeroPad(d[3], 2)

Monday    == <<"M", "o", "n", "d", "a", "y">>
Tuesday   == <<"T", "u", "e", "s", "d", "a", "y">>
Wednesday == <<"W", "e", "d", "n", "e", "s", "d", "a", "y">>
Thursday  == <<"T", "h", "u", "r", "s", "d", "a", "y">>
Friday    == <<"F", "r", "i", "d", "a", "y">>
Saturday  == <<"S", "a", "t", "u", "r", "d", "a", "y">>
Sunday    == <<"S", "u", "n", "d", "a", "y">>

DayNames == <<Monday, Tuesday, Wednesday, Thursday, Friday, Saturday, Sunday>>

\* DatetimeIndex.day_name() of one day: weekday() is 0 on Mondays
day_name(ord) == DayNames[((ord + 6) % 7) + 1]

-----------------------------------------------------------------------------
(* build_roster *)

Columns == << <<"d", "a", "t", "e">>,
              <<"w", "e", "e", "k", "d", "a", "y">>,
              <<"v", "o", "l", "u", "n", "t", "e", "e", "r", "s">>,
              <<"n", "o", "t", "e", "s">> >>

VolunteerSep == <<" ", "&", " ">>

\* 'Staff meeting {!s}--{!s}'.format(start, end)
StaffMeeting(start, end) ==
    <<"S", "t", "a", "f", "f", " ", "m", "e", "e", "t", "i", "n", "g", " ">>
        \o start \o <<"-", "-">> \o end

\* (mutant of build_roster_error: only dt.date can fail)
build_roster_error_date(y, m) == IF ~ValidDate(y, m, 1) THEN "ValueError" ELSE ""

\* the exception build_roster ends in, "" when it returns
build_roster_error(y, m) ==
    IF ~ValidDate(y, m, 1) THEN "ValueError"
    ELSE LET d2 == AddMonth(y, m)
         IN  IF ~ValidDate(d2[1], d2[2], d2[3]) THEN "ValueError"
             ELSE IF ~InTimestampRange(<<y, m, 1>>) \/ ~InTimestampRange(d2)
                  THEN "OutOfBoundsDatetime"
                  ELSE ""

\* cond of the meeting: the weekday is the meeting's and the day of the month
\* lies in 7*(n - 1) .. 7*n
MeetingCond(wd, day, mt) ==
    /\ wd = mt[1]
    /\ day >= 7 * (mt[2] - 1)
    /\ day <= 7 * mt[2]

\* the row of one retained day, the index dropped
RosterRow(ord, vbw, mt) ==
    LET wd == day_name(ord)
    IN  [date       |-> strftime_date(ord),
         weekday    |-> wd,
         volunteers |-> Join(VolunteerSep, vbw[wd]),
         notes      |-> IF mt # <<>> /\ MeetingCond(wd, fromordinal(ord)[3], mt)
                        THEN StaffMeeting(mt[3], mt[4])
                        ELSE <<>>]

\* the DataFrame build_roster returns, as the sequence of its rows
build_roster(y, m, vbw, mt) ==
    LET ix      == date_range(<<y, m, 1>>, AddMonth(y, m))
        Keep(o) == day_name(o) \in DOMAIN vbw
        kept    == SelectSeq(ix, Keep)
    IN  [i \in 1..Len(kept) |-> RosterRow(kept[i], vbw, mt)]

-----------------------------------------------------------------------------
(* get_year_month *)

\* pd.to_datetime of a 'YYYY-MM-DD' string, as <<year, month, day>>
to_datetime(s) ==
    LET parts == Split(s, "-")
    IN  <<ParseInt(parts[1]), ParseInt(parts[2]), ParseInt(parts[3])>>

\* strftime of a date: the directives %Y, %m and %d, other characters kept
RECURSIVE strftime(_, _)
strftime(d, fmt) ==
    IF fmt = <<>> THEN <<>>
    ELSE IF Head(fmt) = "%" /\ Len(fmt) >= 2
         THEN (CASE fmt[2] = "Y" -> ZeroPad(d[1], 4)
                 [] fmt[2] = "m" -> ZeroPad(d[2], 2)
                 [] fmt[2] = "d" -> ZeroPad(d[3], 2)
                 [] OTHER -> <<fmt[2]>>)
              \o strftime(d, SubSeq(fmt, 3, Len(fmt)))
         ELSE <<Head(fmt)>> \o strftime(d, Tail(fmt))

\* the exception get_year_month ends in: .iat[0] of an empty Series
get_year_month_error(f) == IF Len(f) = 0 THEN "IndexError" ELSE ""

\* (mutant of get_year_month: the month comes first)
get_year_month_swapped(f, fmt) ==
    [i \in 1..Len(f) |-> strftime(to_datetime(f[i].date), <<"%", "m", "%", "Y">>)][1]

\* the label get_year_month returns: the first of the formatted dates
get_year_month(f, fmt) ==
    [i \in 1..Len(f) |-> strftime(to_datetime(f[i].date), fmt)][1]

-----------------------------------------------------------------------------
(* to_markdown *)

Sep == "|"
QuoteChar == "\""
LineTerminator == "\n"

\* csv.writer, QUOTE_MINIMAL: a field holding the delimiter, the quote
\* character or the line terminator is quoted, its quote characters doubled
RECURSIVE DoubleQuotes(_)
DoubleQuotes(s) ==
    IF s = <<>> THEN <<>>
    ELSE (IF Head(s) = QuoteChar THEN <<QuoteChar, QuoteChar>> ELSE <<Head(s)>>)
         \o DoubleQuotes(Tail(s))

\* (mutant of csv_field: QUOTE_ALL)
csv_field_quoted(s) == <<QuoteChar>> \o DoubleQuotes(s) \o <<QuoteChar>>

csv_field(s) ==
    IF \E i \in 1..Len(s) : s[i] \in {Sep, QuoteChar, LineTerminator}
    THEN <<QuoteChar>> \o DoubleQuotes(s) \o <<QuoteChar>>
    ELSE s

csv_row(fields) ==
    Join(<<Sep>>, [i \in 1..Len(fields) |-> csv_field(fields[i])]) \o <<LineTerminator>>

RowFields(r) == <<r.date, r.weekday, r.volunteers, r.notes>>

\* header of to_markdown: one '---' per column
SeparatorRow == [i \in 1..Len(Columns) |-> <<"-", "-", "-">>]

\* (mutant of to_markdown_rows: header=False)
to_markdown_rows_noheader(f) ==
    <<csv_row(SeparatorRow)>> \o [i \in 1..Len(f) |-> csv_row(RowFields(f[i]))]

\* g.to_csv(sep='|', index=False) of g = pd.concat([header, f]), as its lines
to_markdown_rows(f) ==
    <<csv_row(Columns), csv_row(SeparatorRow)>>
        \o [i \in 1..Len(f) |-> csv_row(RowFields(f[i]))]

to_markdown(f) == Concat(to_markdown_rows(f))

-----------------------------------------------------------------------------
(* Path.mkdir(parents=True) and the write of the file *)

\* what os.mkdir of component lvl does when the first have components exist
MkdirOutcome(lvl, have) ==
    IF have >= lvl THEN "FileExistsError"
    ELSE IF have = lvl - 1 THEN "created"
    ELSE "FileNotFoundError"

-----------------------------------------------------------------------------
(* Inputs of the notebook *)

Years == {0, 1677, 2021, 2024, 2262, 9999, 10000}
Months == 0..13

\* a key that is no weekday name matches no day
Funday == <<"F", "u", "n", "d", "a", "y">>

KeyNames == {Sunday, Thursday, Saturday, Funday}

Tommy == <<"T", "o", "m", "m", "y">>
Etienne == <<"E", "t", "i", "e", "n", "n", "e">>

\* the lists of the docstring's example; no volunteer on other days
SeedList(w) ==
    IF w = Sunday THEN << <<"?">>, <<"?">> >>
    ELSE IF w = Thursday THEN <<Tommy, Etienne>>
    ELSE <<>>

SeedMappings ==
    {[w \in K |-> SeedList(w)] : K \in {K \in SUBSET KeyNames : Cardinality(K) <= MaxKeys}}

StartTime == <<"1", "5", ":", "0", "0">>
EndTime == <<"1", "6", ":", "0", "0">>

SeedMeetings ==
    {<<>>} \cup {<<w, n, StartTime, EndTime>> : w \in KeyNames, n \in 1..MaxOrdinal}

\* names and times with the characters the CSV writer treats specially
Names == {<<"?">>, <<"A", "|", "B">>, <<"\"">>, <<"x", "\n">>, <<>>}
Times == {StartTime, <<"|">>}

Lists == UNION {[1..n -> Names] : n \in 0..MaxVolunteers}

Formats == {<<"%", "Y", "%", "m">>, <<"%", "Y", "-", "%", "m">>}

CalendarInputs ==
    [year : Years, month : Months, vbw : SeedMappings, mt : SeedMeetings,
     path : {-1}, dirs : {0}]

TextInputs ==
    [year : {2021}, month : {1}, vbw : {[w \in {Sunday} |-> l] : l \in Lists},
     mt : {<<>>} \cup {<<Sunday, 1, s, e>> : s \in Times, e \in Times},
     path : {-1}, dirs : {0}]

PathInputs ==
    {in \in [year : {2021}, month : {1},
             vbw : {[w \in K |-> SeedList(w)] : K \in {{}, {Sunday}}},
             mt : {<<>>}, path : 0..MaxDepth, dirs : 0..MaxDepth] :
        in.dirs <= in.path}

Inputs == CalendarInputs \cup TextInputs \cup PathInputs

-----------------------------------------------------------------------------
(* The notebook run *)

Init ==
    \E in \in Inputs :
        /\ year = in.year
        /\ month = in.month
        /\ volunteers_by_weekday = in.vbw
        /\ meeting_time = in.mt
        /\ path = in.path
        /\ dirs = in.dirs
        /\ pc = "start"
        /\ roster = <<>>
        /\ error = ""
        /\ format = <<>>
        /\ label = <<>>
        /\ markdown = <<>>
        /\ level = 0
        /\ written = <<>>

\* roster = build_roster(year, month, volunteers_by_weekday, meeting_time)
BuildRoster ==
    /\ pc = "start"
    /\ error' = build_roster_error(year, month)
    /\ IF error' = ""
       THEN /\ roster' = build_roster(year, month, volunteers_by_weekday, meeting_time)
            /\ pc' = "built"
       ELSE /\ roster' = roster
            /\ pc' = "error"
    /\ UNCHANGED <<year, month, volunteers_by_weekday, meeting_time, format, label,
                   markdown, path, dirs, level, written>>

\* get_year_month(roster, fmt)
GetYearMonth ==
    /\ pc \in {"built", "done"}
    /\ format = <<>>
    /\ \E fmt \in Formats :
        /\ format' = fmt
        /\ error' = get_year_month_error(roster)
        /\ IF error' = ""
           THEN /\ label' = <<get_year_month(roster, fmt)>>
                /\ pc' = pc
           ELSE /\ label' = label
                /\ pc' = "error"
    /\ UNCHANGED <<year, month, volunteers_by_weekday, meeting_time, roster,
                   markdown, path, dirs, level, written>>

\* to_markdown(roster): no path, the table is returned
ToMarkdownReturn ==
    /\ pc = "built"
    /\ path = -1
    /\ markdown' = <<to_markdown(roster)>>
    /\ pc' = "done"
    /\ UNCHANGED <<year, month, volunteers_by_weekday, meeting_time, roster, error,
                   format, label, path, dirs, level, written>>

\* to_markdown(roster, path): if not path.parent.exists()
ToMarkdownExists ==
    /\ pc = "built"
    /\ path # -1
    /\ IF dirs >= path
       THEN pc' = "save" /\ level' = level
       ELSE pc' = "mkdir" /\ level' = path
    /\ UNCHANGED <<year, month, volunteers_by_weekday, meeting_time, roster, error,
                   format, label, markdown, path, dirs, written>>

\* path.parent.mkdir(parents=True): one os.mkdir; a missing parent is made
\* first with exist_ok=True, an existing path.parent raises
ToMarkdownMkdir ==
    /\ pc = "mkdir"
    /\ LET out == MkdirOutcome(level, dirs)
       IN  CASE out = "created" ->
                  /\ dirs' = level
                  /\ error' = error
                  /\ IF level = path
                     THEN pc' = "save" /\ level' = level
                     ELSE pc' = pc /\ level' = level + 1
             [] out = "FileNotFoundError" ->
                  /\ level' = level - 1
                  /\ UNCHANGED <<pc, dirs, error>>
             [] out = "FileExistsError" ->
                  IF level < path
                  THEN level' = level + 1 /\ UNCHANGED <<pc, dirs, error>>
                  ELSE pc' = "error" /\ error' = out /\ UNCHANGED <<dirs, level>>
    /\ UNCHANGED <<year, month, volunteers_by_weekday, meeting_time, roster,
                   format, label, markdown, path, written>>

\* g.to_csv(path, sep="|", index=False): the file is written, None is returned
ToMarkdownSave ==
    /\ pc = "save"
    /\ IF dirs >= path
       THEN written' = <<to_markdown(roster)>> /\ pc' = "done" /\ error' = error
       ELSE written' = written /\ pc' = "error" /\ error' = "FileNotFoundError"
    /\ UNCHANGED <<year, month, volunteers_by_weekday, meeting_time, roster,
                   format, label, markdown, path, dirs, level>>

\* another process makes the next missing component of path.parent
OtherMkdir ==
    /\ dirs < path
    /\ dirs' = dirs + 1
    /\ UNCHANGED <<pc, year, month, volunteers_by_weekday, meeting_time, roster, error,
                   format, label, markdown, path, level, written>>

Next ==
    \/ BuildRoster
    \/ GetYearMonth
    \/ ToMarkdownReturn
    \/ ToMarkdownExists
    \/ ToMarkdownMkdir
    \/ ToMarkdownSave
    \/ OtherMkdir

Spec == Init /\ [][Next]_vars

-----------------------------------------------------------------------------
(* The calendar, stated independently of the ordinal arithmetic above *)

LeapYear(y) == (y % 4 = 0 /\ y % 100 # 0) \/ y % 400 = 0

DaysInMonth(y, m) ==
    IF m \in {4, 6, 9, 11} THEN 30
    ELSE IF m = 2 THEN (IF LeapYear(y) THEN 29 ELSE 28)
    ELSE 31

\* weekday name of a date by the month-offset table (0 is Sunday)
WeekdayName(y, m, d) ==
    LET t  == <<0, 3, 2, 5, 0, 3, 5, 1, 4, 6, 2, 4>>
        yy == IF m < 3 THEN y - 1 ELSE y
        k  == (yy + yy \div 4 - yy \div 100 + yy \div 400 + t[m] + d) % 7
    IN  <<Sunday, Monday, Tuesday, Wednesday, Thursday, Friday, Saturday>>[k + 1]

DateString(y, m, d) ==
    ZeroPad(y, 4) \o <<"-">> \o ZeroPad(m, 2) \o <<"-">> \o ZeroPad(d, 2)

\* build_roster has returned a roster
BuildReturned == pc # "start" /\ error \notin {"ValueError", "OutOfBoundsDatetime"}

\* the days of the month whose weekday is a key of the mapping
ShiftDays ==
    {d \in 1..DaysInMonth(year, month) :
        WeekdayName(year, month, d) \in DOMAIN volunteers_by_weekday}

\* day of the month of a record
DayOf(r) == CHOOSE d \in 1..31 : r.date = DateString(year, month, d)

\* C1: a returned roster holds exactly one record for each day of the month
\* whose weekday is a key of the mapping, and no other record: none for another
\* weekday, none dated outside the month; so it has as many records as there
\* are such days.
C1_OneRecordPerShiftDay ==
    BuildReturned =>
        /\ \A d \in ShiftDays :
              Cardinality({i \in 1..Len(roster) :
                  roster[i].date = DateString(year, month, d)}) = 1
        /\ \A i \in 1..Len(roster) :
              \E d \in ShiftDays :
                  /\ roster[i].date = DateString(year, month, d)
                  /\ roster[i].weekday = WeekdayName(year, month, d)
        /\ Len(roster) = Cardinality(ShiftDays)

\* December 2021 with Saturdays only: four records, although 1 January 2022
\* is a Saturday too
C1_Witness ==
    /\ BuildReturned
    /\ year = 2021 /\ month = 12
    /\ DOMAIN volunteers_by_weekday = {Saturday}
    /\ Len(roster) = 4
    /\ roster[4].date = <<"2", "0", "2", "1", "-", "1", "2", "-", "2", "5">>

CharRank(c) == IF c \in {Digits[i] : i \in 1..10} THEN DigitVal(c) ELSE -1

\* lexicographic order of strings
RECURSIVE StrLess(_, _)
StrLess(a, b) ==
    IF b = <<>> THEN FALSE
    ELSE IF a = <<>> THEN TRUE
    ELSE IF CharRank(Head(a)) # CharRank(Head(b)) THEN CharRank(Head(a)) < CharRank(Head(b))
    ELSE StrLess(Tail(a), Tail(b))

\* C2: the records of a returned roster are strictly ascending by date
C2_StrictlyAscending ==
    BuildReturned =>
        \A i \in 1..(Len(roster) - 1) : StrLess(roster[i].date, roster[i + 1].date)

\* a roster with a meeting whose dates go from one digit days to two digit days
C2_Witness ==
    /\ BuildReturned
    /\ meeting_time # <<>>
    /\ Len(roster) >= 8
    /\ DayOf(roster[1]) < 10
    /\ DayOf(roster[Len(roster)]) >= 10

\* C3: with a meeting, at most one record of the roster has a non-empty note
C3_AtMostOneNote ==
    (BuildReturned /\ meeting_time # <<>>) =>
        Cardinality({i \in 1..Len(roster) : roster[i].notes # <<>>}) <= 1

\* the date is the n-th day of the month with weekday w
NthOccurrence(d, w, n) ==
    /\ WeekdayName(year, month, d) = w
    /\ Cardinality({e \in 1..d : WeekdayName(year, month, e) = w}) = n

\* C4: with a meeting (w, n, start, end), w a key, a record has the note
\* 'Staff meeting start--end' iff its date is the n-th w of the month; every
\* other record, and every record without a meeting, has the note ''
C4_NoteOnNthWeekday ==
    BuildReturned =>
        \A i \in 1..Len(roster) :
            roster[i].notes =
                IF /\ meeting_time # <<>>
                   /\ NthOccurrence(DayOf(roster[i]), meeting_time[1], meeting_time[2])
                THEN <<"S", "t", "a", "f", "f", " ", "m", "e", "e", "t", "i", "n", "g", " ">>
                         \o meeting_time[3] \o <<"-", "-">> \o meeting_time[4]
                ELSE <<>>

-----------------------------------------------------------------------------
(* Rendering *)

\* the fields of the records, as the tuples a reader of the table expects
Tuples(f) == [i \in 1..Len(f) |-> <<f[i].date, f[i].weekday, f[i].volunteers, f[i].notes>>]

\* the lines of a text, a final line break ending the last line
Lines(text) ==
    LET parts == Split(text, "\n")
    IN  IF parts[Len(parts)] = <<>> THEN SubSeq(parts, 1, Len(parts) - 1) ELSE parts

\* parsing a table back: lines, each split on '|', header and '---' row dropped
ParseBack(text) ==
    LET rows == [i \in 1..Len(Lines(text)) |-> Split(Lines(text)[i], "|")]
    IN  SubSeq(rows, 3, Len(rows))

\* no field of the roster holds '|', '"' or a line break
PlainFields(f) ==
    \A i \in 1..Len(f) : \A j \in 1..4 : \A k \in 1..Len(Tuples(f)[i][j]) :
        Tuples(f)[i][j][k] \notin {"|", "\"", "\n"}

\* the table the roster rendered to, returned or written
Rendered == IF markdown # <<>> THEN markdown ELSE written

\* C5 as stated: rendering any roster and parsing the text back gives the
\* tuples of the roster
C5_RoundTripAnyStrings ==
    Rendered # <<>> => ParseBack(Rendered[1]) = Tuples(roster)

\* C5 as amended: the round trip gives the tuples of the roster when no field
\* holds '|', '"' or a line break
C5_RoundTripPlain ==
    (Rendered # <<>> /\ PlainFields(roster)) => ParseBack(Rendered[1]) = Tuples(roster)

\* a rendered roster with plain fields, an empty list of volunteers and a note
C5_Witness ==
    /\ markdown # <<>>
    /\ PlainFields(roster)
    /\ Len(roster) >= 4
    /\ \E i \in 1..Len(roster) : roster[i].notes # <<>>
    /\ \E i \in 1..Len(roster) : roster[i].volunteers = <<>>

\* a row as the plain join of its fields, with the line break
PlainRow(fields) ==
    (IF fields = <<>> THEN <<>>
     ELSE fields[1] \o Concat([i \in 1..(Len(fields) - 1) |-> <<"|">> \o fields[i + 1]]))
        \o <<"\n">>

PlainTable(f) ==
    PlainRow(Columns) \o PlainRow([i \in 1..4 |-> <<"-", "-", "-">>])
        \o Concat([i \in 1..Len(f) |-> PlainRow(Tuples(f)[i])])

\* C6 as stated: the table is the column names joined by '|', one '---' per
\* column joined by '|', then the records in order with their fields joined by
\* '|', each row ended by a line break: N + 2 rows
C6_PlainRowsAnyStrings ==
    Rendered # <<>> =>
        /\ Rendered[1] = PlainTable(roster)
        /\ Len(Lines(Rendered[1])) = Len(roster) + 2

\* C6 as amended: so it is when no field holds '|', '"' or a line break
C6_PlainRows ==
    (Rendered # <<>> /\ PlainFields(roster)) =>
        /\ Rendered[1] = PlainTable(roster)
        /\ Len(Lines(Rendered[1])) = Len(roster) + 2

\* the empty roster of an empty mapping renders as header and '---' row only
C6_Witness ==
    /\ markdown # <<>>
    /\ DOMAIN volunteers_by_weekday = {}
    /\ roster = <<>>
    /\ Len(Lines(markdown[1])) = 2

\* C7: the volunteers of a record are the list of its weekday joined with
\* ' & ', in the order of the list, nothing removed
C7_VolunteersJoined ==
    BuildReturned =>
        \A i \in 1..Len(roster) :
            LET l == volunteers_by_weekday[roster[i].weekday]
            IN  roster[i].volunteers =
                    IF l = <<>> THEN <<>>
                    ELSE l[1] \o Concat([k \in 1..(Len(l) - 1) |-> <<" ", "&", " ">> \o l[k + 1]])

\* two different names, in the order of the list
C7_Witness ==
    /\ BuildReturned
    /\ \E i \in 1..Len(roster) :
          roster[i].volunteers =
              <<"T", "o", "m", "m", "y", " ", "&", " ", "E", "t", "i", "e", "n", "n", "e">>
    /\ \E i \in 1..Len(roster) : roster[i].volunteers = <<>>

-----------------------------------------------------------------------------
(* Errors *)

BuildFailed == error \in {"ValueError", "OutOfBoundsDatetime"}

\* C8 as stated: build_roster fails iff the month is outside 1..12 or the year
\* is no year of a date; then no roster is returned and nothing else is done
C8_ErrorIffInvalidDate ==
    pc # "start" =>
        /\ BuildFailed <=> ~(month \in 1..12 /\ year \in 1..9999)
        /\ BuildFailed => (pc = "error" /\ roster = <<>>)

\* C8 as amended: build_roster fails iff the month is outside 1..12 or the
\* month is not one of October 1677 .. March 2262; then no roster is returned;
\* otherwise a roster is returned, whatever the mapping
C8_ErrorIffOutOfRange ==
    pc # "start" =>
        /\ BuildFailed <=>
              ~(/\ month \in 1..12
                /\ 1677 * 12 + 10 <= year * 12 + month
                /\ year * 12 + month <= 2262 * 12 + 3)
        /\ BuildFailed => (pc = "error" /\ roster = <<>> /\ label = <<>> /\ markdown = <<>>)
        /\ ~BuildFailed => Len(roster) = Cardinality(ShiftDays)

\* month 13 of a good year ends in the error
C8_Witness ==
    /\ pc = "error"
    /\ error = "ValueError"
    /\ year = 2021 /\ month = 13
    /\ DOMAIN volunteers_by_weekday = {}

\* C9: get_year_month fails iff the roster is empty, and then returns no
\* label; otherwise it returns the year and month of the first date in the
\* format, which for '%Y%m' is YYYYMM of the roster's year and month
C9_LabelOrEmptyRosterError ==
    format # <<>> =>
        /\ error = "IndexError" <=> roster = <<>>
        /\ roster = <<>> => (label = <<>> /\ pc = "error")
        /\ roster # <<>> =>
              label = IF format = <<"%", "Y", "%", "m">>
                      THEN <<SubSeq(roster[1].date, 1, 4) \o SubSeq(roster[1].date, 6, 7)>>
                      ELSE <<SubSeq(roster[1].date, 1, 7)>>
        /\ (roster # <<>> /\ format = <<"%", "Y", "%", "m">>) =>
              label = <<ZeroPad(year, 4) \o ZeroPad(month, 2)>>

\* the label of an empty roster is asked for
C9_Witness ==
    /\ format # <<>>
    /\ roster = <<>>
    /\ error = "IndexError"
    /\ pc = "error"

\* C10: with a path, under every interleaving with a process that makes the
\* same directory, to_markdown ends without error, the parent directory exists
\* and the table is written; without a path nothing is made or written
C10_MkdirOrNoOp ==
    /\ error \notin {"FileExistsError", "FileNotFoundError"}
    /\ (path # -1 /\ pc = "done") => (dirs >= path /\ written = <<to_markdown(roster)>>)
    /\ path = -1 => (written = <<>> /\ dirs = 0)

====
